---- MODULE Spec2Model ----
(***************************************************************************)
(* A model of semver.Version (src/src/semver/version.py).                  *)
(*                                                                         *)
(* Python strings are sequences of one-character strings; the token        *)
(* "U+0663" stands for the single character ARABIC-INDIC DIGIT THREE, a    *)
(* decimal digit for the regex class \d and for int() but not a member of  *)
(* [0-9].  Python values are records [t, n, s]: t is the runtime type, n   *)
(* the number of an int (or of a whole-numbered float), s the characters   *)
(* of a str or bytes.  A Version is a record of its five slots.            *)
(***************************************************************************)
EXTENDS Integers, Sequences, FiniteSets, TLC

VARIABLES op, self, other, third, arg, input, res, text, num, flag, err

vars == <<op, self, other, third, arg, input, res, text, num, flag, err>>

----------------------------------------------------------------------------
(* Bounds of the model.                                                    *)

\* major, minor and patch of the versions the caller constructs: 0..MaxNum
MaxNum == 1
\* identifiers in a prerelease of the versions that are compared
MaxIdents == 2
\* characters put before and after a version string given to parse
MaxPad == 1

\* the longest chain of derived versions
MaxChain == 2

----------------------------------------------------------------------------
(* Characters.                                                             *)

UniDigit == "U+0663"
NL == "\n"

AsciiDigits == {"0", "1", "2", "3", "4", "5", "6", "7", "8", "9"}

NonZeroDigits == AsciiDigits \ {"0"}

\* the regex class \d on a str pattern: every Unicode decimal digit
Digits == AsciiDigits \cup {UniDigit}

Lower == {"a", "b", "c", "d", "e", "f", "g", "h", "i", "j", "k", "l", "m",
          "n", "o", "p", "q", "r", "s", "t", "u", "v", "w", "x", "y", "z"}

Upper == {"A", "B", "C", "D", "E", "F", "G", "H", "I", "J", "K", "L", "M",
          "N", "O", "P", "Q", "R", "S", "T", "U", "V", "W", "X", "Y", "Z"}

\* the regex class [a-zA-Z-]
AlphaHyphen == Lower \cup Upper \cup {"-"}

\* the regex class [0-9a-zA-Z-]
IdentChars == AsciiDigits \cup AlphaHyphen

\* the characters of the model in code point order
CodeOrder == <<NL, " ", "!", "+", "-", ".",
               "0", "1", "2", "3", "4", "5", "6", "7", "8", "9",
               "<", "=", ">",
               "A", "B", "C", "D", "E", "F", "G", "H", "I", "J", "K", "L", "M",
               "N", "O", "P", "Q", "R", "S", "T", "U", "V", "W", "X", "Y", "Z",
               "_",
               "a", "b", "c", "d", "e", "f", "g", "h", "i", "j", "k", "l", "m",
               "n", "o", "p", "q", "r", "s", "t", "u", "v", "w", "x", "y", "z",
               UniDigit>>

Ord == [c \in {CodeOrder[i] : i \in 1..Len(CodeOrder)} |->
          CHOOSE i \in 1..Len(CodeOrder) : CodeOrder[i] = c]

DigitVal == [c \in Digits |->
               CASE c = "0" -> 0 [] c = "1" -> 1 [] c = "2" -> 2 [] c = "3" -> 3
                 [] c = "4" -> 4 [] c = "5" -> 5 [] c = "6" -> 6 [] c = "7" -> 7
                 [] c = "8" -> 8 [] c = "9" -> 9 [] c = UniDigit -> 3]

DigitChar == <<"0", "1", "2", "3", "4", "5", "6", "7", "8", "9">>

----------------------------------------------------------------------------
(* Strings.                                                                *)

Range(f) == {f[i] : i \in DOMAIN f}

\* s[i:j] of Python with 0 <= i, j <= len(s): the characters i+1 .. j
Slice(s, i, j) == IF j <= i THEN <<>> ELSE SubSeq(s, i + 1, j)

AllIn(s, S) == \A i \in 1..Len(s) : s[i] \in S

Contains(s, c) == \E i \in 1..Len(s) : s[i] = c

\* the three-way comparison (a > b) - (a < b) on integers
_cmp(a, b) == IF a < b THEN -1 ELSE IF a > b THEN 1 ELSE 0

RECURSIVE StrCmpFrom(_, _, _)
StrCmpFrom(a, b, i) ==
    IF i > Len(a) \/ i > Len(b) THEN _cmp(Len(a), Len(b))
    ELSE IF a[i] # b[i] THEN _cmp(Ord[a[i]], Ord[b[i]])
    ELSE StrCmpFrom(a, b, i + 1)

\* the three-way comparison (a > b) - (a < b) on str: code point order
StrCmp(a, b) == StrCmpFrom(a, b, 1)

\* str(n) and f"{n:d}" of an int
RECURSIVE Dec(_)
Dec(n) ==
    IF n < 0 THEN <<"-">> \o Dec(0 - n)
    ELSE IF n < 10 THEN <<DigitChar[n + 1]>>
    ELSE Dec(n \div 10) \o <<DigitChar[(n % 10) + 1]>>

\* int(s) of a non-empty run of decimal digits
RECURSIVE DigitsValue(_)
DigitsValue(s) ==
    IF s = <<>> THEN 0
    ELSE 10 * DigitsValue(SubSeq(s, 1, Len(s) - 1)) + DigitVal[s[Len(s)]]

\* s.split(sep): the pieces between the separators, at least one piece
RECURSIVE Split(_, _)
Split(s, sep) ==
    IF ~Contains(s, sep) THEN <<s>>
    ELSE LET k == CHOOSE i \in 1..Len(s) :
                      s[i] = sep /\ \A j \in 1..(i - 1) : s[j] # sep
         IN <<Slice(s, 0, k - 1)>> \o Split(Slice(s, k, Len(s)), sep)

----------------------------------------------------------------------------
(* Python values.                                                          *)

None == [t |-> "none", n |-> 0, s |-> <<>>]
IntV(n) == [t |-> "int", n |-> n, s |-> <<>>]
StrV(s) == [t |-> "str", n |-> 0, s |-> s]
BytesV(s) == [t |-> "bytes", n |-> 0, s |-> s]
\* the float n.0
FloatV(n) == [t |-> "float", n |-> n, s |-> <<>>]

\* the list [1]
ListV == [t |-> "list", n |-> 1, s |-> <<>>]

\* bool(x)
Truthy(x) ==
    CASE x.t = "none" -> FALSE
      [] x.t \in {"int", "float", "list"} -> x.n # 0
      [] OTHER -> x.s # <<>>

\* str(x), as an f-string formats a slot
PyStr(x) ==
    CASE x.t = "none" -> <<"N", "o", "n", "e">>
      [] x.t = "int" -> Dec(x.n)
      [] x.t = "float" -> Dec(x.n) \o <<".", "0">>
      [] x.t = "bytes" -> <<"b", "'">> \o x.s \o <<"'">>
      [] x.t = "list" -> <<"[", "1", "]">>
      [] OTHER -> x.s

----------------------------------------------------------------------------
(* Conversions of the constructor.                                         *)

\* Version._ensure_str: bytes are decoded, anything else is passed through
_ensure_str(x) == IF x.t = "bytes" THEN StrV(x.s) ELSE x

\* Version._enforce_str: an int becomes its decimal string
_enforce_str(x) == IF x.t = "int" THEN StrV(Dec(x.n)) ELSE _ensure_str(x)

Whitespace == {" ", NL}

RECURSIVE Strip(_)
Strip(s) ==
    IF s = <<>> THEN s
    ELSE IF s[1] \in Whitespace THEN Strip(Tail(s))
    ELSE IF s[Len(s)] \in Whitespace THEN Strip(SubSeq(s, 1, Len(s) - 1))
    ELSE s

\* the digits of an int literal: digits, single underscores between them
LiteralDigitsOK(d) ==
    /\ d # <<>>
    /\ AllIn(d, Digits \cup {"_"})
    /\ d[1] # "_" /\ d[Len(d)] # "_"
    /\ \A i \in 1..(Len(d) - 1) : ~(d[i] = "_" /\ d[i + 1] = "_")

\* the characters of s that are not c
Without(s, c) == SelectSeq(s, LAMBDA x : x # c)

\* a sign and the digits after it: [err, n]
SignedValue(sign, d) ==
    IF ~LiteralDigitsOK(d) THEN [err |-> "InvalidValue", n |-> 0]
    ELSE [err |-> "none", n |-> sign * DigitsValue(Without(d, "_"))]

\* a literal without the whitespace around it: [err, n]
IntOfStripped(b) ==
    IF b # <<>> /\ b[1] \in {"+", "-"}
    THEN SignedValue(IF b[1] = "-" THEN -1 ELSE 1, Tail(b))
    ELSE SignedValue(1, b)

\* int(s) of a str or bytes: surrounding whitespace, a sign, the digits;
\* the ValueError of int is raised again by _ensure_int: [err, n]
IntOfText(s) == IntOfStripped(Strip(s))

\* the check of _ensure_int that the converted value is not negative
NotNegative(conv) ==
    IF conv.err = "none" /\ conv.n < 0
    THEN [err |-> "InvalidValue", n |-> 0]
    ELSE conv

\* Version._ensure_int: [err, n]; int() of a type it cannot convert raises
\* a TypeError that is not caught
_ensure_int(x) ==
    NotNegative(CASE x.t \in {"int", "float"} -> [err |-> "none", n |-> x.n]
                  [] x.t \in {"str", "bytes"} -> IntOfText(x.s)
                  [] OTHER -> [err |-> "TypeError", n |-> 0])

----------------------------------------------------------------------------
(* Version._REGEX and Version._parse.                                      *)

\* one alternative list 0|[1-9]\d* matched against the whole of x
NumericOK(x) ==
    \/ x = <<"0">>
    \/ x # <<>> /\ x[1] \in NonZeroDigits /\ AllIn(Tail(x), Digits)

\* 0|[1-9]\d*|\d*[a-zA-Z-][0-9a-zA-Z-]* matched against the whole of x
PrereleaseIdentOK(x) ==
    \/ NumericOK(x)
    \/ \E k \in 1..Len(x) :
          /\ AllIn(Slice(x, 0, k - 1), Digits)
          /\ x[k] \in AlphaHyphen
          /\ AllIn(Slice(x, k, Len(x)), IdentChars)

\* [0-9a-zA-Z-]+ matched against the whole of x
BuildIdentOK(x) == x # <<>> /\ AllIn(x, IdentChars)

\* the index of the first c in s at or after position i, Len(s) + 1 if none
FirstAt(s, c, i) ==
    IF \E k \in i..Len(s) : s[k] = c
    THEN CHOOSE k \in i..Len(s) : s[k] = c /\ \A j \in i..(k - 1) : s[j] # c
    ELSE Len(s) + 1

\* the end of the run of characters of S that starts at position i
RunEnd(s, S, i) ==
    IF \E k \in i..Len(s) : s[k] \notin S
    THEN (CHOOSE k \in i..Len(s) :
              s[k] \notin S /\ \A j \in i..(k - 1) : s[j] \in S) - 1
    ELSE Len(s)

NoMatch == [ok |-> FALSE, major |-> <<>>, minor |-> <<>>, patch |-> <<>>,
            prerelease |-> None, build |-> None]

\* _REGEX matched against the whole of s, with $ standing at the very end:
\* the groups lie between the separators, because no group can hold a
\* separator that follows it
MatchWhole(s) ==
    LET d1 == FirstAt(s, ".", 1)
        d2 == FirstAt(s, ".", d1 + 1)
        pe == RunEnd(s, Digits, d2 + 1)
        hasPre == pe < Len(s) /\ s[pe + 1] = "-"
        plus == FirstAt(s, "+", pe + 1)
        hasBuild == plus <= Len(s)
        pre == Slice(s, pe + 1, plus - 1)
        bld == Slice(s, plus, Len(s))
    IN IF /\ d2 <= Len(s)
          /\ NumericOK(Slice(s, 0, d1 - 1))
          /\ NumericOK(Slice(s, d1, d2 - 1))
          /\ NumericOK(Slice(s, d2, pe))
          /\ (hasPre \/ plus = pe + 1)
          /\ hasPre => \A x \in Range(Split(pre, ".")) : PrereleaseIdentOK(x)
          /\ hasBuild => \A x \in Range(Split(bld, ".")) : BuildIdentOK(x)
       THEN [ok |-> TRUE,
             major |-> Slice(s, 0, d1 - 1),
             minor |-> Slice(s, d1, d2 - 1),
             patch |-> Slice(s, d2, pe),
             prerelease |-> IF hasPre THEN StrV(pre) ELSE None,
             build |-> IF hasBuild THEN StrV(bld) ELSE None]
       ELSE NoMatch

\* _REGEX.match(s): without re.MULTILINE, $ stands at the very end and
\* before a newline that ends the string; no group can hold a newline, so
\* a string that ends in one matches as the string before it does
_REGEX(s) ==
    MatchWhole(IF s # <<>> /\ s[Len(s)] = NL THEN Slice(s, 0, Len(s) - 1) ELSE s)

\* the end of _parse: the groupdict, or the ValueError for no match
Matched(match) ==
    IF match.ok THEN [err |-> "none", d |-> match]
    ELSE [err |-> "InvalidFormat", d |-> NoMatch]

\* Version._parse: [err, d], d the groupdict of the match
_parse(x) ==
    IF _ensure_str(x).t # "str" THEN [err |-> "InvalidType", d |-> NoMatch]
    ELSE Matched(_REGEX(_ensure_str(x).s))

----------------------------------------------------------------------------
(* The constructor.                                                        *)

VERSIONPARTS == <<"major", "minor", "patch", "prerelease", "build">>

VERSIONPARTDEFAULTS == <<IntV(0), IntV(0), IntV(0), None, None>>

ALLOWED_TYPES == <<{"int", "str", "bytes"},
                   {"int", "str", "bytes"},
                   {"int", "str", "bytes"},
                   {"int", "str", "bytes", "none"},
                   {"int", "str", "bytes", "none"}>>

\* the five slots of a Version
Ver(ma, mi, pa, pre, bld) ==
    [major |-> ma, minor |-> mi, patch |-> pa, prerelease |-> pre, build |-> bld]

\* no Version: the call raised, or nothing was returned yet
NoVersion == Ver(-1, -1, -1, None, None)

\* keyword arguments: a value for each part, None for a part not passed
Kw(ma, mi, pa, pre, bld) == Ver(ma, mi, pa, pre, bld)

NoKw == Kw(None, None, None, None, None)

Min(a, b) == IF a < b THEN a ELSE b

\* Version._check_types: the positions whose type is not allowed
_check_types(args) ==
    {i \in 1..Min(Len(args), 5) : args[i].t \notin ALLOWED_TYPES[i]}

\* Version._raise_if_args_are_invalid: the error raised, "none" if none
_raise_if_args_are_invalid(args) ==
    IF Len(args) > 5 THEN "TooManyArguments"
    ELSE IF Len(args) > 1 /\ Contains(PyStr(args[1]), ".")
         THEN "InvalidArgumentCombination"
    ELSE IF _check_types(args) # {} THEN "InvalidType"
    ELSE "none"

\* the position named by the TypeError of _raise_if_args_are_invalid
InvalidTypePosition(args) ==
    (CHOOSE i \in _check_types(args) : \A j \in _check_types(args) : i <= j) - 1

\* the groups of a match as the values of the five parts
Groups(d) == <<StrV(d.major), StrV(d.minor), StrV(d.patch), d.prerelease, d.build>>

\* step (2) of __init__ for a first argument that is a version string:
\* [err, d], d the five values of dictargs
ParsedArgs(parsed) ==
    IF parsed.err # "none" THEN [err |-> parsed.err, d |-> VERSIONPARTDEFAULTS]
    ELSE [err |-> "none", d |-> Groups(parsed.d)]

\* step (2) of __init__: [err, d]; a part that args does not reach is left
\* to the default of step (5)
DictArgs(args) ==
    IF /\ Len(args) > 0
       /\ Truthy(args[1])
       /\ Contains(_enforce_str(args[1]).s, ".")
    THEN ParsedArgs(_parse(args[1]))
    ELSE [err |-> "none",
          d |-> [i \in 1..5 |-> IF i <= Len(args) THEN args[i]
                                ELSE VERSIONPARTDEFAULTS[i]]]

\* steps (3) and (4) with the dicts merged in the other order: a part that
\* args gives is kept
MergedArgsFirst(d, kw) ==
    [i \in 1..5 |-> IF d[i] # VERSIONPARTDEFAULTS[i] \/ kw[VERSIONPARTS[i]] = None
                    THEN d[i] ELSE kw[VERSIONPARTS[i]]]

\* steps (3) and (4) of __init__: a keyword argument that is not None
\* overwrites dictargs
Merged(d, kw) ==
    [i \in 1..5 |-> IF kw[VERSIONPARTS[i]] # None THEN kw[VERSIONPARTS[i]] ELSE d[i]]

\* step (5) of __init__ once the numbers are converted: [err, v]
SetParts(n, versiondict) ==
    IF n[1].err # "none" THEN [err |-> n[1].err, v |-> NoVersion]
    ELSE IF n[2].err # "none" THEN [err |-> n[2].err, v |-> NoVersion]
    ELSE IF n[3].err # "none" THEN [err |-> n[3].err, v |-> NoVersion]
    ELSE [err |-> "none",
          v |-> Ver(n[1].n, n[2].n, n[3].n,
                    _enforce_str(versiondict[4]), _enforce_str(versiondict[5]))]

\* step (5) of __init__: [err, v]
FromDict(versiondict) ==
    SetParts([i \in 1..3 |-> _ensure_int(versiondict[i])], versiondict)

\* steps (2) to (5) of __init__: [err, v]
FromArgs(dictargs, kw) ==
    IF dictargs.err # "none" THEN [err |-> dictargs.err, v |-> NoVersion]
    ELSE FromDict(Merged(dictargs.d, kw))

\* Version.__init__: [err, v]
Version(args, kw) ==
    IF _raise_if_args_are_invalid(args) # "none"
    THEN [err |-> _raise_if_args_are_invalid(args), v |-> NoVersion]
    ELSE FromArgs(DictArgs(args), kw)

\* the end of parse: cls(**matched_version_parts)
FromMatch(matched) ==
    IF matched.err # "none" THEN [err |-> matched.err, v |-> NoVersion]
    ELSE Version(<<>>, Kw(StrV(matched.d.major), StrV(matched.d.minor),
                          StrV(matched.d.patch), matched.d.prerelease,
                          matched.d.build))

\* Version.parse: [err, v]
parse(x) == FromMatch(_parse(x))

\* the exception class of an error
ErrClass(e) ==
    IF e \in {"InvalidType", "TypeError", "UnknownField", "UnsupportedType"}
    THEN "TypeError"
    ELSE IF e = "AttributeError" THEN "AttributeError"
    ELSE IF e = "none" THEN "none"
    ELSE "ValueError"

\* the try of isvalid around a call of parse that ended as got
Caught(got) ==
    IF got.err = "none" THEN [err |-> "none", b |-> TRUE]
    ELSE IF ErrClass(got.err) = "ValueError" THEN [err |-> "none", b |-> FALSE]
    ELSE [err |-> got.err, b |-> FALSE]

\* Version.isvalid: [err, b]; only a ValueError becomes False
isvalid(x) == Caught(parse(x))

\* a setter that assigns the value to the slot
setterAssigning(v, name, value) ==
    [err |-> "none",
     v |-> [v EXCEPT ![name] = IF name \in {"major", "minor", "patch"}
                               THEN value.n ELSE value]]

\* the setters of major, minor, patch, prerelease and build: [err, v], v
\* the Version after the assignment
setter(v, name, value) == [err |-> "AttributeError", v |-> v]

\* Version.to_tuple
to_tuple(v) == <<v.major, v.minor, v.patch, v.prerelease, v.build>>

\* __str__ without the build
__str__WithoutBuild(v) ==
    Dec(v.major) \o <<".">> \o Dec(v.minor) \o <<".">> \o Dec(v.patch)
      \o (IF Truthy(v.prerelease) THEN <<"-">> \o PyStr(v.prerelease) ELSE <<>>)

\* Version.__hash__: the tuple that is hashed
__hash__(v) == SubSeq(to_tuple(v), 1, 4)

\* Version.__str__
__str__(v) ==
    Dec(v.major) \o <<".">> \o Dec(v.minor) \o <<".">> \o Dec(v.patch)
      \o (IF Truthy(v.prerelease) THEN <<"-">> \o PyStr(v.prerelease) ELSE <<>>)
      \o (IF Truthy(v.build) THEN <<"+">> \o PyStr(v.build) ELSE <<>>)

----------------------------------------------------------------------------
(* Derived versions.                                                       *)

\* keyword arguments that pass the three numbers of v
KwOf(v) == Kw(IntV(v.major), IntV(v.minor), IntV(v.patch), None, None)

\* Version._LAST_NUMBER.search(s).span(1), from position p (0-based) on:
\* each round of the repeated group takes non-digits, a run of digits and
\* non-digits again; group 1 is the run of the last round that succeeds
RECURSIVE LastRun(_, _, _)
LastRun(s, p, last) ==
    LET start == RunEnd(s, {s[i] : i \in 1..Len(s)} \ Digits, p + 1)
        end == RunEnd(s, Digits, start + 1)
    IN IF end = start THEN last
       ELSE LastRun(s, RunEnd(s, {s[i] : i \in 1..Len(s)} \ Digits, end + 1),
                    [found |-> TRUE, start |-> start, end |-> end])

_LAST_NUMBER(s) == LastRun(s, 0, [found |-> FALSE, start |-> 0, end |-> 0])

Max(a, b) == IF a > b THEN a ELSE b

\* the splice that puts a zero before the new number
SplicedZeroFilled(string, next_, start, end) ==
    Slice(string, 0, start) \o <<"0">> \o next_ \o Slice(string, end, Len(string))

\* the last line of _increment_string, start and end the span of group 1
Spliced(string, next_, start, end) ==
    Slice(string, 0, Max(end - Len(next_), start))
      \o next_ \o Slice(string, end, Len(string))

\* the body of _increment_string for the result of the search
Incremented(string, match) ==
    IF match.found
    THEN Spliced(string,
                 Dec(DigitsValue(Slice(string, match.start, match.end)) + 1),
                 match.start, match.end)
    ELSE string

\* Version._increment_string
_increment_string(string) == Incremented(string, _LAST_NUMBER(string))

\* bump_major that keeps the minor
bump_majorKeepingMinor(v) ==
    Version(<<>>, Kw(IntV(v.major + 1), IntV(v.minor), None, None, None))

\* Version.bump_major: [err, v]
bump_major(v) ==
    Version(<<>>, Kw(IntV(v.major + 1), None, None, None, None))

\* bump_minor that keeps the patch
bump_minorKeepingPatch(v) ==
    Version(<<>>, Kw(IntV(v.major), IntV(v.minor + 1), IntV(v.patch), None, None))

\* Version.bump_minor: [err, v]
bump_minor(v) ==
    Version(<<>>, Kw(IntV(v.major), IntV(v.minor + 1), None, None, None))

\* Version.bump_patch: [err, v]
bump_patch(v) ==
    Version(<<>>, Kw(IntV(v.major), IntV(v.minor), IntV(v.patch + 1), None, None))

\* slot or (token or default) + ".0", the string a bump increments:
\* [err, s]; a slot or token that is no str raises a TypeError
BumpSeed(slot, token, default) ==
    IF Truthy(slot)
    THEN IF slot.t = "str" THEN [err |-> "none", s |-> slot.s]
         ELSE [err |-> "TypeError", s |-> <<>>]
    ELSE IF ~Truthy(token) THEN [err |-> "none", s |-> default \o <<".", "0">>]
    ELSE IF token.t = "str" THEN [err |-> "none", s |-> token.s \o <<".", "0">>]
    ELSE [err |-> "TypeError", s |-> <<>>]

\* the return of a bump_prerelease that keeps the build
WithPrereleaseAndBuild(v, seed) ==
    IF seed.err # "none" THEN [err |-> seed.err, v |-> NoVersion]
    ELSE Version(<<>>, Kw(IntV(v.major), IntV(v.minor), IntV(v.patch),
                          StrV(_increment_string(seed.s)), v.build))

\* the return of bump_prerelease
WithPrerelease(v, seed) ==
    IF seed.err # "none" THEN [err |-> seed.err, v |-> NoVersion]
    ELSE Version(<<>>, Kw(IntV(v.major), IntV(v.minor), IntV(v.patch),
                          StrV(_increment_string(seed.s)), None))

\* Version.bump_prerelease: [err, v]
bump_prerelease(v, token) ==
    WithPrerelease(v, BumpSeed(v.prerelease, token, <<"r", "c">>))

\* the return of bump_build
WithBuild(v, seed) ==
    IF seed.err # "none" THEN [err |-> seed.err, v |-> NoVersion]
    ELSE Version(<<>>, Kw(IntV(v.major), IntV(v.minor), IntV(v.patch),
                          v.prerelease, StrV(_increment_string(seed.s))))

\* Version.bump_build: [err, v]
bump_build(v, token) ==
    WithBuild(v, BumpSeed(v.build, token, <<"b", "u", "i", "l", "d">>))

\* Version.finalize_version: [err, v]
finalize_version(v) == Version(<<>>, KwOf(v))

\* Version.to_dict
to_dict(v) == Kw(IntV(v.major), IntV(v.minor), IntV(v.patch), v.prerelease, v.build)

\* the try of replace around Version(**version) that ended as made; a
\* keyword that is no part is a TypeError of the call
Replaced(names, made) ==
    IF names \ Range(VERSIONPARTS) # {} \/ ErrClass(made.err) = "TypeError"
    THEN [err |-> "UnknownField", v |-> NoVersion]
    ELSE made

\* Version.replace: [err, v]; names are the keywords passed, parts their
\* values; a TypeError of the constructor is reported as unknown keywords
replace(v, names, parts) ==
    Replaced(names,
             Version(<<>>, [p \in Range(VERSIONPARTS) |->
                              IF p \in names THEN parts[p] ELSE to_dict(v)[p]]))

----------------------------------------------------------------------------
(* Comparison.                                                             *)

\* re.match(r"^\d+$", x): $ also stands before a newline that ends x
IsNumber(x) ==
    \/ x # <<>> /\ AllIn(x, Digits)
    \/ Len(x) > 1 /\ x[Len(x)] = NL /\ AllIn(Slice(x, 0, Len(x) - 1), Digits)

\* cmp_prerelease_tag that answers -1 whenever one part is a number
cmp_prerelease_tagOneSided(a, b) ==
    IF IsNumber(a) /\ IsNumber(b)
    THEN _cmp(DigitsValue(Strip(a)), DigitsValue(Strip(b)))
    ELSE IF IsNumber(a) \/ IsNumber(b) THEN -1
    ELSE StrCmp(a, b)

\* cmp_prerelease_tag of _nat_cmp, on the parts before int() is applied
cmp_prerelease_tag(a, b) ==
    IF IsNumber(a) /\ IsNumber(b)
    THEN _cmp(DigitsValue(Strip(a)), DigitsValue(Strip(b)))
    ELSE IF IsNumber(a) THEN -1
    ELSE IF IsNumber(b) THEN 1
    ELSE StrCmp(a, b)

\* _nat_cmp that compares the two strings as text
_nat_cmpAsText(x, y) ==
    [err |-> "none",
     n |-> StrCmp(IF Truthy(x) THEN x.s ELSE <<>>, IF Truthy(y) THEN y.s ELSE <<>>)]

\* the for loop of _nat_cmp over zip(a_parts, b_parts) and its else
RECURSIVE NatCmpFrom(_, _, _, _, _)
NatCmpFrom(a, b, a_parts, b_parts, i) ==
    IF i > Len(a_parts) \/ i > Len(b_parts) THEN _cmp(Len(a), Len(b))
    ELSE LET cmp_result == cmp_prerelease_tag(a_parts[i], b_parts[i])
         IN IF cmp_result # 0 THEN cmp_result
            ELSE NatCmpFrom(a, b, a_parts, b_parts, i + 1)

\* Version._nat_cmp: [err, n]; a slot that is truthy and no str has no split
_nat_cmp(x, y) ==
    LET a == IF Truthy(x) THEN x ELSE StrV(<<>>)
        b == IF Truthy(y) THEN y ELSE StrV(<<>>)
    IN IF a.t # "str" \/ b.t # "str" THEN [err |-> "AttributeError", n |-> 0]
       ELSE [err |-> "none",
             n |-> NatCmpFrom(a.s, b.s, Split(a.s, "."), Split(b.s, "."), 1)]

\* _cmp(v1, v2) of compare on the tuples of the three numbers
CmpNumbers(v, w) ==
    IF v.major # w.major THEN _cmp(v.major, w.major)
    ELSE IF v.minor # w.minor THEN _cmp(v.minor, w.minor)
    ELSE _cmp(v.patch, w.patch)

\* the end of compare, rccmp the result of _nat_cmp: [err, n]
ByPrerelease(rc1, rc2, rccmp) ==
    IF rccmp.err # "none" THEN rccmp
    ELSE IF rccmp.n = 0 THEN [err |-> "none", n |-> 0]
    ELSE IF ~Truthy(rc1) THEN [err |-> "none", n |-> 1]
    ELSE IF ~Truthy(rc2) THEN [err |-> "none", n |-> -1]
    ELSE rccmp

\* compare that goes on to the build when the prereleases are equal
CompareVersionsThenBuild(v, w) ==
    IF CmpNumbers(v, w) # 0 THEN [err |-> "none", n |-> CmpNumbers(v, w)]
    ELSE IF _nat_cmp(v.prerelease, w.prerelease).n # 0
         THEN ByPrerelease(v.prerelease, w.prerelease,
                           _nat_cmp(v.prerelease, w.prerelease))
    ELSE ByPrerelease(v.build, w.build, _nat_cmp(v.build, w.build))

\* Version.compare once other is a Version: [err, n]
CompareVersions(v, w) ==
    IF CmpNumbers(v, w) # 0 THEN [err |-> "none", n |-> CmpNumbers(v, w)]
    ELSE ByPrerelease(v.prerelease, w.prerelease,
                      _nat_cmp(v.prerelease, w.prerelease))

\* the operands of a comparison: a Version, a str or other value, a dict
\* of parts, a tuple or list
OfVersion(w) == [k |-> "Version", v |-> w, x |-> None, args |-> <<>>, kw |-> NoKw]
OfValue(x) == [k |-> "value", v |-> NoVersion, x |-> x, args |-> <<>>, kw |-> NoKw]
OfDict(kw) == [k |-> "dict", v |-> NoVersion, x |-> None, args |-> <<>>, kw |-> kw]
OfSeq(args) == [k |-> "seq", v |-> NoVersion, x |-> None, args |-> args, kw |-> NoKw]

\* the conversion that passes a tuple or list as one argument, not unpacked
ToVersionOfWholeSeq(o) ==
    CASE o.k = "Version" -> [err |-> "none", v |-> o.v]
      [] o.k = "dict" -> Version(<<>>, o.kw)
      [] o.k = "seq" -> Version(<<ListV>>, NoKw)
      [] OTHER ->
           IF o.x.t \notin {"str", "bytes"}
           THEN [err |-> "UnsupportedType", v |-> NoVersion]
           ELSE IF ~Contains(_ensure_str(o.x).s, ".")
                THEN [err |-> "ExpectedVersionString", v |-> NoVersion]
           ELSE Version(<<o.x>>, NoKw)

\* the conversion of the operand at the head of Version.compare: [err, v]
ToVersion(o) ==
    CASE o.k = "Version" -> [err |-> "none", v |-> o.v]
      [] o.k = "dict" -> Version(<<>>, o.kw)
      [] o.k = "seq" -> Version(o.args, NoKw)
      [] OTHER ->
           IF o.x.t \notin {"str", "bytes"}
           THEN [err |-> "UnsupportedType", v |-> NoVersion]
           ELSE IF ~Contains(_ensure_str(o.x).s, ".")
                THEN [err |-> "ExpectedVersionString", v |-> NoVersion]
           ELSE Version(<<o.x>>, NoKw)

\* compare after the conversion of other that ended as got
CompareWith(v, got) ==
    IF got.err # "none" THEN [err |-> got.err, n |-> 0]
    ELSE CompareVersions(v, got.v)

\* Version.compare: [err, n]
compare(v, o) == CompareWith(v, ToVersion(o))

\* getattr(version, "bump_" + part)() of next_version
Bump(v, part) ==
    CASE part = "major" -> bump_major(v)
      [] part = "minor" -> bump_minor(v)
      [] OTHER -> bump_patch(v)

\* the last line of next_version, on the version that the line before left
LastBump(version, prerelease_token) ==
    IF version.err # "none" THEN version
    ELSE bump_prerelease(version.v, prerelease_token)

\* next_version that strips a prerelease whatever the lower numbers are
next_versionAlwaysStripping(v, part, prerelease_token) ==
    IF part \notin {"major", "minor", "patch", "prerelease"}
    THEN [err |-> "InvalidArgument", v |-> NoVersion]
    ELSE IF /\ Truthy(v.prerelease) \/ Truthy(v.build)
            /\ part \in {"major", "minor", "patch"}
         THEN replace(v, {"prerelease", "build"}, NoKw)
    ELSE IF part \in {"major", "minor", "patch"} THEN Bump(v, part)
    ELSE LastBump(IF ~Truthy(v.prerelease) THEN bump_patch(v)
                  ELSE [err |-> "none", v |-> v],
                  prerelease_token)

\* Version.next_version: [err, v]
next_version(v, part, prerelease_token) ==
    IF part \notin {"major", "minor", "patch", "prerelease"}
    THEN [err |-> "InvalidArgument", v |-> NoVersion]
    ELSE IF /\ Truthy(v.prerelease) \/ Truthy(v.build)
            /\ \/ part = "patch"
               \/ part = "minor" /\ v.patch = 0
               \/ part = "major" /\ v.minor = 0 /\ v.patch = 0
         THEN replace(v, {"prerelease", "build"}, NoKw)
    ELSE IF part \in {"major", "minor", "patch"} THEN Bump(v, part)
    ELSE LastBump(IF ~Truthy(v.prerelease) THEN bump_patch(v)
                  ELSE [err |-> "none", v |-> v],
                  prerelease_token)

\* the body of a rich comparison method, c the result of compare
Operator(name, c) ==
    IF c.err # "none" THEN [err |-> c.err, r |-> "raised"]
    ELSE [err |-> "none",
          r |-> IF CASE name = "__eq__" -> c.n = 0
                     [] name = "__ne__" -> c.n # 0
                     [] name = "__lt__" -> c.n < 0
                     [] name = "__le__" -> c.n <= 0
                     [] name = "__gt__" -> c.n > 0
                     [] OTHER -> c.n >= 0
                THEN "True" ELSE "False"]

\* the rich comparison methods under the _comparator wrapper: [err, r], r
\* the value returned, "NotImplemented" for an operand of no comparable type
RichCompare(name, v, o) ==
    IF o.k = "value" /\ o.x.t \notin {"str", "bytes"}
    THEN [err |-> "none", r |-> "NotImplemented"]
    ELSE Operator(name, compare(v, o))

\* possibilities_dict of match
possibilities_dict(prefix) ==
    CASE prefix = <<">">> -> {1}
      [] prefix = <<"<">> -> {-1}
      [] prefix = <<"=", "=">> -> {0}
      [] prefix = <<"!", "=">> -> {-1, 1}
      [] prefix = <<">", "=">> -> {0, 1}
      [] OTHER -> {-1, 0}

\* the head of match that tries the one-character operators first
MatchPartsOneFirst(match_expr) ==
    IF match_expr # <<>> /\ match_expr[1] \in {">", "<"}
    THEN [err |-> "none", prefix |-> <<match_expr[1]>>,
          match_version |-> Slice(match_expr, 1, Len(match_expr))]
    ELSE IF Slice(match_expr, 0, Min(2, Len(match_expr)))
              \in {<<"=", "=">>, <<"!", "=">>}
    THEN [err |-> "none", prefix |-> Slice(match_expr, 0, 2),
          match_version |-> Slice(match_expr, 2, Len(match_expr))]
    ELSE [err |-> "InvalidMatchExpression", prefix |-> <<>>, match_version |-> <<>>]

\* the head of match: prefix and match_version of match_expr, or the error
MatchParts(match_expr) ==
    IF Slice(match_expr, 0, Min(2, Len(match_expr)))
         \in {<<">", "=">>, <<"<", "=">>, <<"=", "=">>, <<"!", "=">>}
    THEN [err |-> "none", prefix |-> Slice(match_expr, 0, 2),
          match_version |-> Slice(match_expr, 2, Len(match_expr))]
    ELSE IF match_expr # <<>> /\ match_expr[1] \in {">", "<"}
    THEN [err |-> "none", prefix |-> <<match_expr[1]>>,
          match_version |-> Slice(match_expr, 1, Len(match_expr))]
    ELSE [err |-> "InvalidMatchExpression", prefix |-> <<>>, match_version |-> <<>>]

\* the end of match: cmp_res in possibilities, cmp_res the result of compare
InPossibilities(prefix, cmp_res) ==
    IF cmp_res.err # "none" THEN [err |-> cmp_res.err, b |-> FALSE]
    ELSE [err |-> "none", b |-> cmp_res.n \in possibilities_dict(prefix)]

\* match once match_expr is taken apart
Matching(v, parts) ==
    IF parts.err # "none" THEN [err |-> parts.err, b |-> FALSE]
    ELSE InPossibilities(parts.prefix, compare(v, OfValue(StrV(parts.match_version))))

\* Version.match: [err, b]
match(v, match_expr) == Matching(v, MatchParts(match_expr))

----------------------------------------------------------------------------
(* The values the caller passes.                                           *)

alpha == <<"a", "l", "p", "h", "a">>
beta == <<"b", "e", "t", "a">>
rc == <<"r", "c">>
build == <<"b", "u", "i", "l", "d">>

RECURSIVE Join(_, _)
Join(parts, sep) ==
    IF Len(parts) = 0 THEN <<>>
    ELSE IF Len(parts) = 1 THEN parts[1]
    ELSE parts[1] \o <<sep>> \o Join(Tail(parts), sep)

\* the version string of three numbers, a prerelease and a build (<<>>: none)
VersionString(ma, mi, pa, pre, bld) ==
    Dec(ma) \o <<".">> \o Dec(mi) \o <<".">> \o Dec(pa)
      \o (IF pre = <<>> THEN <<>> ELSE <<"-">> \o pre)
      \o (IF bld = <<>> THEN <<>> ELSE <<"+">> \o bld)

Nums == 0..MaxNum

\* prereleases of the strings parsed: digits at the end, before a suffix,
\* with leading zeros, in two places, on a carry, and none
Prereleases == {<<>>, rc \o <<".", "1">>, rc \o <<".", "9">>, alpha,
                <<"a", "0", "0", "9", "b">>,
                <<"x", "1", ".", "y", "9", "9">>, <<"0">>}

Builds == {<<>>, build \o <<".", "9">>, <<"b", "0", "9", "9">>, <<"0", "0", "7">>}

\* strings no grammar accepts
BadStrings == {<<"1", ".", "2">>, <<"0", "1", ".", "2", ".", "3">>,
               <<"1", ".", "2", ".", "3", "-">>,
               <<"1", ".", "2", ".", "3", ".", "4">>, <<>>}

\* the versions of the documented examples
ExampleStrings ==
    {VersionString(0, 1, 4, <<>>, <<>>),
     VersionString(3, 4, 5, rc \o <<".", "1">>, build \o <<".", "9">>),
     VersionString(2, 0, 0, <<>>, <<>>)}

ParseStrings ==
    {VersionString(a, b, c, p, q) :
        a \in Nums, b \in Nums, c \in Nums, p \in Prereleases, q \in Builds}
      \cup ExampleStrings \cup BadStrings

\* prerelease and build values of direct construction: absent, empty, not
\* of the grammar, of the grammar, an int
DirectPrereleases == {None, StrV(<<>>), StrV(<<"0", "1">>), StrV(<<"a", " ", "b">>),
                      StrV(rc \o <<".", "1">>), IntV(7)}

DirectBuilds == {None, StrV(<<>>), StrV(<<"b", "+", "1">>), StrV(build \o <<".", "9">>)}

\* calls of the constructor: [args, kw]
ConstructCalls ==
    {[args |-> <<IntV(a), IntV(b), IntV(c), p, q>>, kw |-> NoKw] :
        a \in Nums, b \in Nums, c \in Nums,
        p \in DirectPrereleases, q \in DirectBuilds}
      \cup {[args |-> <<IntV(1), IntV(2), IntV(3)>>, kw |-> NoKw],
            [args |-> <<IntV(4)>>, kw |-> NoKw],
            [args |-> <<>>, kw |-> NoKw],
            [args |-> <<StrV(<<"1", ".", "2", ".", "3">> \o <<"-">> \o rc)>>,
             kw |-> Kw(IntV(2), None, None, None, StrV(build))],
            [args |-> <<>>,
             kw |-> Kw(StrV(<<"0", "1">>), StrV(<<" ", "2">>), BytesV(<<"3">>),
                       FloatV(1), None)],
            [args |-> <<IntV(1), IntV(2), IntV(3), IntV(4), IntV(5), IntV(6)>>,
             kw |-> NoKw],
            [args |-> <<IntV(1), IntV(2)>>,
             kw |-> Kw(IntV(0), None, StrV(<<"1">>), StrV(rc), None)],
            [args |-> <<IntV(1), IntV(2), IntV(3), StrV(rc), StrV(build)>>,
             kw |-> Kw(None, IntV(0), None, StrV(alpha), IntV(7))],
            [args |-> <<StrV(VersionString(1, 2, 3, rc, build))>>,
             kw |-> Kw(None, None, IntV(0), None, StrV(<<"b">>))],
            [args |-> <<BytesV(<<"1", ".", "2", ".", "3">>)>>, kw |-> NoKw],
            [args |-> <<StrV(<<"4">>), None>>, kw |-> NoKw],
            [args |-> <<IntV(1), StrV(<<"x">>)>>, kw |-> NoKw],
            [args |-> <<IntV(-1)>>, kw |-> NoKw],
            [args |-> <<IntV(1), None>>, kw |-> NoKw],
            [args |-> <<StrV(<<"1", ".", "2", ".", "3">>), IntV(4)>>, kw |-> NoKw]}

\* tokens of bump_prerelease and next_version; rc is the default
PrereleaseTokens == {StrV(rc), StrV(<<>>), StrV(<<"a", "1">>)}

\* tokens of bump_build; build is the default
BuildTokens == {StrV(build), StrV(<<>>), StrV(<<"a", "1">>)}

Parts == {"major", "minor", "patch", "prerelease", "build"}

\* calls of replace: the keywords passed and their values; foo is no part
ReplaceCalls ==
    {[names |-> {}, parts |-> NoKw],
     [names |-> {"major"}, parts |-> Kw(IntV(2), None, None, None, None)],
     [names |-> {"major", "build"},
      parts |-> Kw(IntV(2), None, None, None, StrV(<<"x">>))],
     [names |-> {"patch", "prerelease"},
      parts |-> Kw(None, None, StrV(<<"7">>), StrV(rc), None)],
     [names |-> {"prerelease"}, parts |-> NoKw],
     [names |-> {"prerelease", "build"}, parts |-> Kw(None, None, None, None, IntV(7))],
     [names |-> {"major"}, parts |-> NoKw],
     [names |-> {"major"}, parts |-> Kw(StrV(<<"x">>), None, None, None, None)],
     [names |-> {"minor"}, parts |-> Kw(None, IntV(-1), None, None, None)],
     [names |-> {"major"}, parts |-> Kw(ListV, None, None, None, None)],
     [names |-> {"foo"}, parts |-> NoKw],
     [names |-> {"major", "foo"}, parts |-> Kw(IntV(2), None, None, None, None)]}

\* the six operators of match and some heads that are none of them
MatchOperators ==
    {<<">">>, <<"<">>, <<">", "=">>, <<"<", "=">>, <<"=", "=">>, <<"!", "=">>}

MatchHeads == MatchOperators \cup {<<>>, <<"=">>, <<"!">>, <<"~">>, <<"=", ">">>}

\* the versions of match expressions: of the grammar, with a build, not of
\* the grammar, without a dot, empty
MatchVersions ==
    {VersionString(1, 0, 0, <<>>, <<>>),
     VersionString(0, 1, 0, rc \o <<".", "1">>, <<>>),
     VersionString(1, 0, 0, <<>>, build),
     <<"1", ".", "0">>, <<"1">>, <<>>}

MatchExprs == {h \o w : h \in MatchHeads, w \in MatchVersions}

----------------------------------------------------------------------------
(* The caller: it constructs a Version, self, and calls its methods.       *)

\* the arguments of the last call
Arg(p, t, a, k) == [part |-> p, token |-> t, args |-> a, kw |-> k, names |-> {}]

\* the keyword arguments of a call of replace: the names that are passed
\* and their values
Named(names, k) == [Arg("", None, <<>>, k) EXCEPT !.names = names]

NoArg == Arg("", None, <<>>, NoKw)

NoOperand == OfValue(None)

Init ==
    /\ op = "init"
    /\ self = NoVersion
    /\ other = NoOperand
    /\ third = NoVersion
    /\ arg = NoArg
    /\ input = <<>>
    /\ res = NoVersion
    /\ text = <<>>
    /\ num = 0
    /\ flag = FALSE
    /\ err = "none"

\* a call that makes the Version the caller goes on with
\* self was made by parse: the constructor is called with no string
ByParse == input # <<>>

Made(name, s, a, made) ==
    /\ op' = name
    /\ input' = s
    /\ arg' = a
    /\ self' = made.v
    /\ err' = made.err
    /\ res' = NoVersion
    /\ text' = <<>>
    /\ num' = 0
    /\ flag' = FALSE
    /\ UNCHANGED <<other, third>>

\* the caller holds a Version it has just constructed; its methods leave
\* self as it is, so a call after another call would only lead to a state
\* that is reached from here
Fresh == op \in {"parse", "Version"} /\ self # NoVersion

\* what a method that returns a Version leaves: the Version or the error
Effect(name, a, got) ==
    /\ op' = name
    /\ arg' = a
    /\ res' = got.v
    /\ err' = got.err
    /\ text' = <<>>
    /\ num' = 0
    /\ flag' = FALSE
    /\ UNCHANGED <<self, other, third, input>>

\* a method of self that returns a Version
Returned(name, a, got) == Fresh /\ Effect(name, a, got)

\* the caller constructs its Version first: a construction after a call
\* would only lead back to a state that is reached from the initial one
Parse ==
    /\ op = "init"
    /\ \E s \in ParseStrings : Made("parse", s, NoArg, parse(StrV(s)))

Construct ==
    /\ op = "init"
    /\ \E c \in ConstructCalls :
          Made("Version", <<>>, Arg("", None, c.args, c.kw), Version(c.args, c.kw))

Str ==
    /\ Fresh
    /\ op' = "__str__"
    /\ text' = __str__(self)
    /\ arg' = NoArg
    /\ res' = NoVersion
    /\ err' = "none"
    /\ num' = 0
    /\ flag' = FALSE
    /\ UNCHANGED <<self, other, third, input>>

\* Version.parse(str(self)): the string of the last __str__ is parsed
ParseText ==
    /\ op = "__str__"
    /\ \E got \in {parse(StrV(text))} :
          /\ op' = "parse(str)"
          /\ res' = got.v
          /\ err' = got.err
    /\ UNCHANGED <<self, other, third, input, arg, text, num, flag>>

BumpMajor == Returned("bump_major", NoArg, bump_major(self))

BumpMinor == Returned("bump_minor", NoArg, bump_minor(self))

BumpPatch == Returned("bump_patch", NoArg, bump_patch(self))

BumpPrerelease ==
    \E t \in PrereleaseTokens :
        Returned("bump_prerelease", Arg("", t, <<>>, NoKw), bump_prerelease(self, t))

BumpBuild ==
    \E t \in BuildTokens :
        Returned("bump_build", Arg("", t, <<>>, NoKw), bump_build(self, t))

NextVersion ==
    \E p \in Parts, t \in PrereleaseTokens :
        Returned("next_version", Arg(p, t, <<>>, NoKw), next_version(self, p, t))

FinalizeVersion == Returned("finalize_version", NoArg, finalize_version(self))

Replace ==
    \E c \in ReplaceCalls :
        Returned("replace", Named(c.names, c.parts), replace(self, c.names, c.parts))

\* self.match(match_expr); the expression is kept as the token of arg
Match ==
    /\ Fresh
    /\ \E e \in MatchExprs :
          \E got \in {match(self, e)} :
              /\ op' = "match"
              /\ arg' = Arg("", StrV(e), <<>>, NoKw)
              /\ flag' = got.b
              /\ err' = got.err
    /\ res' = NoVersion
    /\ text' = <<>>
    /\ num' = 0
    /\ UNCHANGED <<self, other, third, input>>

Next ==
    \/ Parse
    \/ Construct
    \/ Str
    \/ ParseText
    \/ BumpMajor
    \/ BumpMinor
    \/ BumpPatch
    \/ BumpPrerelease
    \/ BumpBuild
    \/ NextVersion
    \/ FinalizeVersion
    \/ Match
    \/ Replace

Spec == Init /\ [][Next]_vars

----------------------------------------------------------------------------
(* Comparison of parsed versions: self, other and third are parsed first.  *)

OrderIdents == {alpha, <<"2">>}

\* the prereleases of one to MaxIdents identifiers, those of the SemVer
\* precedence example, and some with capitals, hyphens and leading digits
OrderPrereleases ==
    {Join(l, ".") : l \in UNION {[1..k -> OrderIdents] : k \in 1..MaxIdents}}
      \cup {<<>>, alpha \o <<".", "1">>, alpha \o <<".">> \o beta, beta,
            beta \o <<".", "2">>, beta \o <<".", "1", "1">>, rc \o <<".", "1">>,
            <<"A", "l", "p", "h", "a">>, <<"-">>, <<"2", "a">>}

OrderStrings ==
    {VersionString(1, 0, 0, p, <<>>) : p \in OrderPrereleases}
      \cup {VersionString(a, b, c, p, <<>>) :
              a \in 0..1, b \in 0..1, c \in 9..10, p \in {<<>>, alpha}}
      \cup {VersionString(1, 0, 0, p, q) :
              p \in {<<>>, rc \o <<".", "1">>},
              q \in {build \o <<"1">>, build \o <<"2">>}}

ThirdStrings ==
    {VersionString(1, 0, 0, p, <<>>) :
        p \in {<<>>, alpha, alpha \o <<".", "1">>, <<"1", "1">>, <<"2">>,
               beta \o <<".", "2">>}}
      \cup {VersionString(0, 1, 10, alpha, <<>>)}

Parsed(strings) == {parse(StrV(s)).v : s \in strings} \ {NoVersion}

InitOrder ==
    /\ op = "init"
    /\ self \in Parsed(OrderStrings)
    /\ other \in {OfVersion(w) : w \in Parsed(OrderStrings)}
    /\ third \in Parsed(ThirdStrings)
    /\ arg = NoArg
    /\ input = <<>>
    /\ res = NoVersion
    /\ text = <<>>
    /\ num = 0
    /\ flag = FALSE
    /\ err = "none"

\* self.compare(other)
Compare ==
    /\ op = "init"
    /\ \E got \in {compare(self, other)} :
          /\ op' = "compare"
          /\ num' = got.n
          /\ err' = got.err
    /\ UNCHANGED <<self, other, third, arg, input, res, text, flag>>

Operators == {"__eq__", "__ne__", "__lt__", "__le__", "__gt__", "__ge__"}

\* self == other, self != other, self < other, ...
Rich ==
    /\ op = "init"
    /\ \E name \in Operators :
          \E got \in {RichCompare(name, self, other)} :
              /\ op' = name
              /\ flag' = (got.r = "True")
              /\ err' = got.err
    /\ UNCHANGED <<self, other, third, arg, input, res, text, num>>

NextOrder == Compare \/ Rich

SpecOrder == InitOrder /\ [][NextOrder]_vars

----------------------------------------------------------------------------
(* Comparison with operands of every kind.                                 *)

\* operands that are no Version: strings with and without a dot, bytes,
\* values of other types, dicts of parts, tuples and lists
Operands ==
    {OfValue(x) : x \in {StrV(VersionString(1, 0, 0, <<>>, <<>>)),
                         StrV(VersionString(1, 0, 1, rc \o <<".", "1">>, build)),
                         BytesV(VersionString(1, 0, 0, alpha, <<>>)),
                         StrV(VersionString(0, 0, 1, <<>>, build)),
                         StrV(<<"1">>), StrV(<<"1", ".", "0">>), StrV(<<>>),
                         BytesV(<<"1">>), IntV(1), FloatV(1), None}}
      \cup {OfDict(kw) : kw \in {NoKw,
                                 Kw(IntV(1), None, None, None, None),
                                 Kw(IntV(1), IntV(0), IntV(0), StrV(alpha), None),
                                 Kw(StrV(<<"1">>), None, IntV(1), StrV(rc), StrV(build)),
                                 Kw(IntV(-1), None, None, None, None),
                                 Kw(StrV(<<"x">>), None, None, None, None)}}
      \cup {OfSeq(a) : a \in {<<>>, <<IntV(1)>>, <<IntV(1), IntV(0), IntV(0)>>,
                              <<StrV(<<"1">>), IntV(0), IntV(1), StrV(alpha)>>,
                              <<IntV(1), IntV(0), IntV(0), StrV(rc), StrV(build)>>,
                              <<StrV(VersionString(1, 0, 0, alpha, <<>>))>>,
                              <<StrV(VersionString(1, 0, 0, <<>>, <<>>)), IntV(1)>>,
                              <<IntV(1), None>>,
                              <<IntV(1), IntV(2), IntV(3), IntV(4), IntV(5), IntV(6)>>}}

\* the Versions the operands are compared with
OperandStrings ==
    {VersionString(a, 0, c, p, <<>>) :
        a \in Nums, c \in Nums, p \in {<<>>, alpha, rc}}

\* Versions of the constructor with the same numbers whose prereleases are
\* absent, empty, a number with and without a leading zero, a text, an int
DirectVersions ==
    {Version(<<IntV(1), IntV(0), IntV(0), p, q>>, NoKw).v :
        p \in {None, StrV(<<>>), StrV(<<"1">>), StrV(<<"0", "1">>), StrV(alpha),
               IntV(1)},
        q \in {None, StrV(build)}}

InitOperand ==
    /\ op = "init"
    /\ self \in Parsed(OperandStrings) \cup DirectVersions
    /\ other \in Operands \cup {OfVersion(w) : w \in DirectVersions}
    /\ third = NoVersion
    /\ arg = NoArg
    /\ input = <<>>
    /\ res = NoVersion
    /\ text = <<>>
    /\ num = 0
    /\ flag = FALSE
    /\ err = "none"

\* hash(self) == hash(other) for a Version other, as the equality of the
\* tuples that are hashed
HashBoth ==
    /\ op = "init"
    /\ other.k = "Version"
    /\ op' = "__hash__"
    /\ flag' = (__hash__(self) = __hash__(other.v))
    /\ err' = "none"
    /\ UNCHANGED <<self, other, third, arg, input, res, text, num>>

NextOperand == Compare \/ Rich \/ HashBoth

SpecOperand == InitOperand /\ [][NextOperand]_vars

----------------------------------------------------------------------------
(* Parsing of raw strings.                                                 *)

PadChars == {"0", "1", "a", ".", "-", "+", " ", NL, UniDigit}

Pads == UNION {[1..k -> PadChars] : k \in 0..MaxPad}

Seeds == {<<>>, <<"1", ".", "2">>, <<"1", ".", "2", ".", "3">>,
          <<"1", ".", "2", ".", "3", ".", "4">>,
          VersionString(1, 2, 3, rc \o <<".", "1">>, <<>>),
          VersionString(1, 2, 3, <<>>, <<"b", ".", "1">>),
          VersionString(0, 0, 0, <<"a">>, <<"b">>),
          VersionString(10, 0, 0, <<"0">>, <<"0", "0">>)}

RawStrings == {p \o s \o q : p \in Pads, s \in Seeds, q \in Pads}

InitParse ==
    /\ op = "init"
    /\ input \in RawStrings
    /\ self = NoVersion
    /\ other = NoOperand
    /\ third = NoVersion
    /\ arg = NoArg
    /\ res = NoVersion
    /\ text = <<>>
    /\ num = 0
    /\ flag = FALSE
    /\ err = "none"

\* Version.parse(input)
ParseRaw ==
    /\ op = "init"
    /\ \E got \in {parse(StrV(input))} :
          /\ op' = "parse"
          /\ res' = got.v
          /\ err' = got.err
    /\ UNCHANGED <<self, other, third, arg, input, text, num, flag>>

\* Version.isvalid(input)
IsValidRaw ==
    /\ op = "init"
    /\ \E got \in {isvalid(StrV(input))} :
          /\ op' = "isvalid"
          /\ flag' = got.b
          /\ err' = got.err
    /\ UNCHANGED <<self, other, third, arg, input, res, text, num>>

NextParse == ParseRaw \/ IsValidRaw

SpecParse == InitParse /\ [][NextParse]_vars

----------------------------------------------------------------------------
(* Sequences of calls on one Version, with a second Version as operand.    *)

\* the Versions of the sequences: parsed ones, and one that the constructor
\* made with a prerelease that is no string
SequenceVersions ==
    Parsed({VersionString(a, 0, 9, p, q) :
              a \in Nums, p \in {<<>>, rc \o <<".", "1">>}, q \in {<<>>, build}})
      \cup {Version(<<>>, Kw(IntV(1), None, None, FloatV(1), None)).v}

SequenceOperands ==
    {OfVersion(parse(StrV(VersionString(1, 0, 9, rc \o <<".", "1">>, build))).v),
     OfValue(StrV(<<"1">>)), OfSeq(<<IntV(1), IntV(0), IntV(9)>>)}

InitSequence ==
    /\ op = "Version"
    /\ self \in SequenceVersions
    /\ other \in SequenceOperands
    /\ third = NoVersion
    /\ arg = NoArg
    /\ input = <<>>
    /\ res = NoVersion
    /\ text = <<>>
    /\ num = 0
    /\ flag = FALSE
    /\ err = "none"

ThenBumpMajor == Effect("bump_major", NoArg, bump_major(self))

ThenBumpMinor == Effect("bump_minor", NoArg, bump_minor(self))

ThenBumpPatch == Effect("bump_patch", NoArg, bump_patch(self))

ThenFinalizeVersion == Effect("finalize_version", NoArg, finalize_version(self))

ThenBumpPrerelease ==
    \E t \in PrereleaseTokens :
        Effect("bump_prerelease", Arg("", t, <<>>, NoKw), bump_prerelease(self, t))

ThenBumpBuild ==
    \E t \in BuildTokens :
        Effect("bump_build", Arg("", t, <<>>, NoKw), bump_build(self, t))

ThenNextVersion ==
    \E p \in Parts :
        Effect("next_version", Arg(p, StrV(rc), <<>>, NoKw),
               next_version(self, p, StrV(rc)))

ThenReplace ==
    \E c \in ReplaceCalls :
        Effect("replace", Named(c.names, c.parts), replace(self, c.names, c.parts))

\* self.compare(other) and the comparison operators
ThenCompare ==
    /\ \E got \in {compare(self, other)} :
          /\ op' = "compare"
          /\ num' = got.n
          /\ err' = got.err
    /\ arg' = NoArg
    /\ res' = NoVersion
    /\ text' = <<>>
    /\ flag' = FALSE
    /\ UNCHANGED <<self, other, third, input>>

ThenRich ==
    /\ \E name \in Operators :
          \E got \in {RichCompare(name, self, other)} :
              /\ op' = name
              /\ flag' = (got.r = "True")
              /\ err' = got.err
    /\ arg' = NoArg
    /\ res' = NoVersion
    /\ text' = <<>>
    /\ num' = 0
    /\ UNCHANGED <<self, other, third, input>>

ThenMatch ==
    /\ \E e \in {<<">", "=">> \o __str__(self), <<"<">> \o __str__(self), <<"=">>} :
          \E got \in {match(self, e)} :
              /\ op' = "match"
              /\ arg' = Arg("", StrV(e), <<>>, NoKw)
              /\ flag' = got.b
              /\ err' = got.err
    /\ res' = NoVersion
    /\ text' = <<>>
    /\ num' = 0
    /\ UNCHANGED <<self, other, third, input>>

\* str(self), self.to_tuple() and self.to_dict(); of the values returned
\* the string is kept
ThenRead ==
    /\ \E name \in {"__str__", "to_tuple", "to_dict"} :
          /\ op' = name
          /\ text' = IF name = "__str__" THEN __str__(self) ELSE <<>>
          /\ name = "to_tuple" => Len(to_tuple(self)) = 5
          /\ name = "to_dict" => DOMAIN to_dict(self) = Range(VERSIONPARTS)
    /\ arg' = NoArg
    /\ err' = "none"
    /\ res' = NoVersion
    /\ num' = 0
    /\ flag' = FALSE
    /\ UNCHANGED <<self, other, third, input>>

\* the values assigned: a number to major, minor and patch, a text to
\* prerelease and build
Assigned(name) == IF name \in {"major", "minor", "patch"} THEN IntV(7) ELSE StrV(alpha)

\* self.major = value, ..., self.build = value, and the same on the operand;
\* what the last call returned stays with the caller
Assign ==
    /\ \E name \in Range(VERSIONPARTS) : \E value \in {Assigned(name)} :
          \/ \E got \in {setter(self, name, value)} :
                /\ self' = got.v
                /\ err' = got.err
                /\ arg' = Arg(name, value, <<>>, NoKw)
                /\ other' = other
          \/ /\ other.k = "Version"
             /\ \E got \in {setter(other.v, name, value)} :
                   /\ other' = OfVersion(got.v)
                   /\ err' = got.err
                   /\ arg' = Arg(name, value, <<>>, NoKw)
                   /\ self' = self
    /\ op' = "setattr"
    /\ UNCHANGED <<third, input, res, text, num, flag>>

NextSequence ==
    \/ ThenBumpMajor
    \/ ThenBumpMinor
    \/ ThenBumpPatch
    \/ ThenFinalizeVersion
    \/ ThenBumpPrerelease
    \/ ThenBumpBuild
    \/ ThenNextVersion
    \/ ThenReplace
    \/ ThenCompare
    \/ ThenRich
    \/ ThenMatch
    \/ ThenRead
    \/ Assign

SpecSequence == InitSequence /\ [][NextSequence]_vars

----------------------------------------------------------------------------
(* Chains of derived versions: what a call returns is the next receiver.   *)

\* the strings the chains start from: of the grammar, and two that parse
\* accepts beyond it
ChainStrings ==
    {VersionString(a, 0, 9, p, q) : a \in Nums, p \in Prereleases, q \in Builds}
      \cup {VersionString(1, 0, 0, <<"1", UniDigit>>, <<>>),
            VersionString(1, 2, 3, <<>>, <<>>) \o <<NL>>}

InitChain ==
    /\ op = "init"
    /\ input \in ChainStrings
    /\ self = NoVersion
    /\ other = NoOperand
    /\ third = NoVersion
    /\ arg = NoArg
    /\ res = NoVersion
    /\ text = <<>>
    /\ num = 0
    /\ flag = FALSE
    /\ err = "none"

\* self = Version.parse(input)
ChainParse ==
    /\ op = "init"
    /\ \E got \in {parse(StrV(input))} :
          /\ got.err = "none"
          /\ self' = got.v
    /\ op' = "parse"
    /\ UNCHANGED <<other, third, arg, input, res, text, num, flag, err>>

\* self = self.method(): num counts the calls of the chain
Chained(name, part, got) ==
    /\ op # "init"
    /\ num < MaxChain
    /\ got.err = "none"
    /\ self' = got.v
    /\ op' = name
    /\ arg' = Arg(part, None, <<>>, NoKw)
    /\ num' = num + 1
    /\ UNCHANGED <<other, third, input, res, text, flag, err>>

ChainBumpMajor == Chained("bump_major", "", bump_major(self))

ChainBumpMinor == Chained("bump_minor", "", bump_minor(self))

ChainBumpPatch == Chained("bump_patch", "", bump_patch(self))

ChainBumpPrerelease ==
    Chained("bump_prerelease", "", bump_prerelease(self, StrV(rc)))

ChainBumpBuild == Chained("bump_build", "", bump_build(self, StrV(build)))

ChainNextVersion ==
    \E p \in {"major", "minor", "patch", "prerelease"} :
        Chained("next_version", p, next_version(self, p, StrV(rc)))

ChainFinalizeVersion == Chained("finalize_version", "", finalize_version(self))

NextChain ==
    \/ ChainParse
    \/ ChainBumpMajor
    \/ ChainBumpMinor
    \/ ChainBumpPatch
    \/ ChainBumpPrerelease
    \/ ChainBumpBuild
    \/ ChainNextVersion
    \/ ChainFinalizeVersion

SpecChain == InitChain /\ [][NextChain]_vars

----------------------------------------------------------------------------
(* The grammar of the specification (4.1), stated on its own.              *)

\* numericId = "0" | [1-9][0-9]*
GNumericId(x) == x # <<>> /\ AllIn(x, AsciiDigits) /\ (Len(x) > 1 => x[1] # "0")

\* ident = [0-9A-Za-z-]+
GIdent(x) == x # <<>> /\ AllIn(x, IdentChars)

\* altId = ident containing at least one non-digit character, OR numericId
GAltId(x) == GIdent(x) /\ (GNumericId(x) \/ ~AllIn(x, AsciiDigits))

\* prerelease = altId ("." altId)*
GPrerelease(p) == \A i \in 1..Len(Split(p, ".")) : GAltId(Split(p, ".")[i])

\* build = ident ("." ident)*
GBuild(b) == \A i \in 1..Len(Split(b, ".")) : GIdent(Split(b, ".")[i])

\* major "." minor "." patch
GCore(c) ==
    /\ Len(Split(c, ".")) = 3
    /\ \A i \in 1..3 : GNumericId(Split(c, ".")[i])

\* the text of s before the first c, all of s if there is none
Before(s, c) == Slice(s, 0, FirstAt(s, c, 1) - 1)

\* the text of s after the first c
After(s, c) == Slice(s, FirstAt(s, c, 1), Len(s))

\* core ["-" prerelease], the part of a version string before the build
GCorePrerelease(s) ==
    /\ GCore(Before(s, "-"))
    /\ Contains(s, "-") => GPrerelease(After(s, "-"))

\* full = major "." minor "." patch ["-" prerelease] ["+" build]
GrammarValid(s) ==
    /\ GCorePrerelease(Before(s, "+"))
    /\ Contains(s, "+") => GBuild(After(s, "+"))

\* a prerelease slot that is absent or a prerelease of the grammar
PrereleaseOfGrammar(x) == x = None \/ (x.t = "str" /\ GPrerelease(x.s))

\* a build slot that is absent or a build of the grammar
BuildOfGrammar(x) == x = None \/ (x.t = "str" /\ GBuild(x.s))

----------------------------------------------------------------------------
(* C1: round trip.                                                         *)

\* C1 as stated: for every Version the caller can construct, by parse or
\* by the constructor, Version.parse(str(v)) succeeds and returns a Version
\* with the same five fields.
C1_RoundTripOfEveryVersion ==
    op = "parse(str)" => err = "none" /\ res = self

\* C1 as amended: for every Version returned by parse, and every Version
\* of the constructor whose prerelease and build are each absent or of the
\* grammar, Version.parse(str(v)) succeeds and returns a Version with the
\* same five fields.
C1_RoundTrip ==
    (/\ op = "parse(str)"
     /\ \/ ByParse
        \/ PrereleaseOfGrammar(self.prerelease) /\ BuildOfGrammar(self.build))
      => err = "none" /\ res = self

\* a Version with a prerelease and a build went through str and parse
C1_Witness ==
    /\ op = "parse(str)"
    /\ Truthy(self.prerelease) /\ Truthy(self.build)
    /\ err = "none" /\ res = self

----------------------------------------------------------------------------
(* C2: the comparison operators form a total order.                        *)

\* a rich comparison of two Versions returned True
Holds(name, a, b) == RichCompare(name, a, OfVersion(b)).r = "True"

ExactlyOne(A, B, C) == (A /\ ~B /\ ~C) \/ (~A /\ B /\ ~C) \/ (~A /\ ~B /\ C)

\* C2: for the Versions a, b, c parsed from strings of the grammar, exactly
\* one of a < b, a == b, a > b holds, and a < b and b < c imply a < c; the
\* three Versions of the state are taken in every arrangement.
C2_TotalOrder ==
    op = "compare" =>
      LET V  == {self, other.v, third}
          lt == [p \in V \X V |-> Holds("__lt__", p[1], p[2])]
          eq == [p \in V \X V |-> Holds("__eq__", p[1], p[2])]
          gt == [p \in V \X V |-> Holds("__gt__", p[1], p[2])]
      IN \A a \in V : \A b \in V :
            /\ ExactlyOne(lt[<<a, b>>], eq[<<a, b>>], gt[<<a, b>>])
            /\ \A c \in V : lt[<<a, b>>] /\ lt[<<b, c>>] => lt[<<a, c>>]

\* three Versions in a strict chain that only the prerelease orders
C2_Witness ==
    /\ op = "compare" /\ num = -1
    /\ <<self.major, self.minor, self.patch>>
         = <<third.major, third.minor, third.patch>>
    /\ Holds("__lt__", self, other.v)
    /\ Holds("__lt__", other.v, third)
    /\ Holds("__lt__", self, third)

----------------------------------------------------------------------------
(* C3: precedence of prereleases.                                          *)

\* the order of two identifiers by the rule of the claim: two numeric ones
\* by value, a numeric one below a non-numeric one, two non-numeric ones as
\* plain text
IdentOrder(x, y) ==
    IF GNumericId(x) /\ GNumericId(y) THEN _cmp(DigitsValue(x), DigitsValue(y))
    ELSE IF GNumericId(x) THEN -1
    ELSE IF GNumericId(y) THEN 1
    ELSE StrCmp(x, y)

\* the order of two lists of identifiers: the first pair that differs
\* decides, and a proper prefix is below the longer list
ListOrder(k, l) ==
    LET differ == {i \in 1..Min(Len(k), Len(l)) : IdentOrder(k[i], l[i]) # 0}
    IN IF differ = {} THEN _cmp(Len(k), Len(l))
       ELSE IdentOrder(k[CHOOSE i \in differ : \A j \in differ : i <= j],
                       l[CHOOSE i \in differ : \A j \in differ : i <= j])

\* the precedence of two prerelease slots at equal major.minor.patch: a
\* version without prerelease is above every version with one
Precedence(p, q) ==
    IF ~Truthy(p) /\ ~Truthy(q) THEN 0
    ELSE IF ~Truthy(p) THEN 1
    ELSE IF ~Truthy(q) THEN -1
    ELSE ListOrder(Split(p.s, "."), Split(q.s, "."))

\* the example of the SemVer specification, lowest first
PrecedenceExample ==
    <<VersionString(1, 0, 0, alpha, <<>>),
      VersionString(1, 0, 0, alpha \o <<".", "1">>, <<>>),
      VersionString(1, 0, 0, alpha \o <<".">> \o beta, <<>>),
      VersionString(1, 0, 0, beta, <<>>),
      VersionString(1, 0, 0, beta \o <<".", "2">>, <<>>),
      VersionString(1, 0, 0, beta \o <<".", "1", "1">>, <<>>),
      VersionString(1, 0, 0, rc \o <<".", "1">>, <<>>),
      VersionString(1, 0, 0, <<>>, <<>>)>>

\* the Versions parsed from the strings of the example
ExampleVersions == [i \in 1..8 |-> parse(StrV(PrecedenceExample[i])).v]

\* C3: at equal major.minor.patch compare ranks a version without
\* prerelease above every version with one and two prereleases identifier
\* by identifier, and so the versions of the example in their order.
C3_Precedence ==
    op = "compare" =>
      /\ <<self.major, self.minor, self.patch>>
           = <<other.v.major, other.v.minor, other.v.patch>>
         => err = "none" /\ num = Precedence(self.prerelease, other.v.prerelease)
      /\ \A i \in 1..8 : \A j \in 1..8 :
            self = ExampleVersions[i] /\ other.v = ExampleVersions[j]
              => num = _cmp(i, j)

\* 1.0.0-beta.2 was compared with 1.0.0-beta.11 and came out lower
C3_Witness ==
    /\ op = "compare" /\ num = -1
    /\ self = Ver(1, 0, 0, StrV(beta \o <<".", "2">>), None)
    /\ other.v = Ver(1, 0, 0, StrV(beta \o <<".", "1", "1">>), None)

----------------------------------------------------------------------------
(* C4: the build never influences the order.                               *)

\* the builds put in the place of the build of an operand
OtherBuilds == {None, StrV(build \o <<"1">>), StrV(<<"0", ".", "z">>)}

SetBuild(v, q) == [v EXCEPT !.build = q]

\* C4: the result of compare and of every comparison operator is the same
\* when the build of either operand is replaced by another build or
\* removed, and two versions that differ only in the build are equal.
C4_BuildIgnored ==
    /\ op = "compare" =>
         /\ \A q \in OtherBuilds :
               /\ compare(SetBuild(self, q), other) = [err |-> err, n |-> num]
               /\ compare(self, OfVersion(SetBuild(other.v, q)))
                    = [err |-> err, n |-> num]
               /\ compare(self, OfVersion(SetBuild(self, q)))
                    = [err |-> "none", n |-> 0]
    /\ op \in Operators =>
         \A q \in OtherBuilds :
            /\ (RichCompare(op, SetBuild(self, q), other).r = "True") = flag
            /\ (RichCompare(op, self, OfVersion(SetBuild(other.v, q))).r = "True")
                 = flag

\* two parsed versions that differ in the build alone compared equal
C4_Witness ==
    /\ op = "__eq__" /\ flag
    /\ Truthy(self.build) /\ Truthy(other.v.build)
    /\ self.build # other.v.build
    /\ SetBuild(self, None) = SetBuild(other.v, None)

----------------------------------------------------------------------------
(* C5: parse accepts exactly the grammar.                                  *)

\* C5: Version.parse accepts a string exactly when the whole string is of
\* the grammar and fails with InvalidFormat otherwise, and Version.isvalid
\* returns true for the strings parse accepts and false for the others.
C5_ParseAcceptsExactlyGrammar ==
    /\ op = "parse" =>
         IF GrammarValid(input) THEN err = "none" ELSE err = "InvalidFormat"
    /\ op = "isvalid" => err = "none" /\ flag = GrammarValid(input)

\* "1.2.3" followed by a line feed was parsed, and gave 1.2.3
C5_Witness ==
    /\ op = "parse"
    /\ input = <<"1", ".", "2", ".", "3", NL>>
    /\ err = "none"
    /\ res = Ver(1, 2, 3, None, None)

----------------------------------------------------------------------------
(* C6, C7: bump_major, bump_minor, bump_patch.                             *)

\* C6: bump_major returns (major+1, 0, 0), bump_minor (major, minor+1, 0)
\* and bump_patch (major, minor, patch+1), each without prerelease and
\* build, whatever the prerelease and the build of the version were.
C6_BumpNumbers ==
    /\ op = "bump_major" =>
         err = "none" /\ res = Ver(self.major + 1, 0, 0, None, None)
    /\ op = "bump_minor" =>
         err = "none" /\ res = Ver(self.major, self.minor + 1, 0, None, None)
    /\ op = "bump_patch" =>
         err = "none"
           /\ res = Ver(self.major, self.minor, self.patch + 1, None, None)

\* the minor of a version with patch, prerelease and build was bumped
C6_Witness ==
    /\ op = "bump_minor"
    /\ self.patch > 0 /\ Truthy(self.prerelease) /\ Truthy(self.build)
    /\ res = Ver(self.major, self.minor + 1, 0, None, None)

\* Version(1, 2, 3), Version(4, 0, 0) and Version(2, 0, 0)
Version123 == Version(<<IntV(1), IntV(2), IntV(3)>>, NoKw).v

Version400 == Version(<<IntV(4), IntV(0), IntV(0)>>, NoKw).v

Version200 == Version(<<IntV(2), IntV(0), IntV(0)>>, NoKw).v

\* C7 as stated: Version(1,2,3).bump_major() equals Version(4,0,0).
C7_BumpMajorGives400 ==
    op = "bump_major" /\ self = Version123 /\ ~ByParse
      => err = "none" /\ Holds("__eq__", res, Version400)

\* C7 as amended: Version(1,2,3).bump_major() equals Version(2,0,0).
C7_BumpMajorGives200 ==
    op = "bump_major" /\ self = Version123 /\ ~ByParse
      => err = "none" /\ Holds("__eq__", res, Version200)

\* bump_major was called on the Version that Version(1, 2, 3) constructed
C7_Witness ==
    /\ op = "bump_major" /\ self = Version123 /\ ~ByParse
    /\ res.major = 2 /\ res.minor = 0 /\ res.patch = 0

----------------------------------------------------------------------------
(* C8, C9: bump_prerelease and bump_build.                                 *)

\* the numbers of v with the prerelease p and no build
Seeded(v, p) == Ver(v.major, v.minor, v.patch, StrV(p), None)

RunHi(s) == CHOOSE i \in 1..Len(s) :
               s[i] \in Digits /\ \A j \in (i + 1)..Len(s) : s[j] \notin Digits

RunLo(s) == CHOOSE i \in 1..RunHi(s) :
               /\ \A j \in i..RunHi(s) : s[j] \in Digits
               /\ i > 1 => s[i - 1] \notin Digits

\* d with zeros put before it up to the length n
Padded(d, n) == [i \in 1..(Max(n, Len(d)) - Len(d)) |-> "0"] \o d

\* s with its last run of digits replaced by the value of the run plus one,
\* written with no fewer digits than the run had; s itself without digits
PlusOne(s) ==
    IF \A i \in 1..Len(s) : s[i] \notin Digits THEN s
    ELSE SubSeq(s, 1, RunLo(s) - 1)
           \o Padded(Dec(DigitsValue(SubSeq(s, RunLo(s), RunHi(s))) + 1),
                     RunHi(s) - RunLo(s) + 1)
           \o SubSeq(s, RunHi(s) + 1, Len(s))

\* 3.4.5-rc.1+build.9 and 3.4.5-rc.1+build.10
Example345 ==
    parse(StrV(VersionString(3, 4, 5, rc \o <<".", "1">>, build \o <<".", "9">>))).v

Example345Bumped ==
    parse(StrV(VersionString(3, 4, 5, rc \o <<".", "1">>,
                             build \o <<".", "1", "0">>))).v

\* C9: bump_prerelease of a version with a prerelease, and bump_build of a
\* version with a build, replace the last run of digits of the field by its
\* value plus one, keep the text around the run and the leading zeros of
\* the run, and leave a field without digits as it is; bump_build leaves
\* major, minor, patch and prerelease as they were.
C9_IncrementLastNumber ==
    /\ op = "bump_prerelease" /\ Truthy(self.prerelease) =>
         /\ err = "none"
         /\ <<res.major, res.minor, res.patch>>
              = <<self.major, self.minor, self.patch>>
         /\ res.prerelease = StrV(PlusOne(self.prerelease.s))
    /\ op = "bump_build" =>
         /\ err = "none"
         /\ <<res.major, res.minor, res.patch, res.prerelease>>
              = <<self.major, self.minor, self.patch, self.prerelease>>
         /\ Truthy(self.build) => res.build = StrV(PlusOne(self.build.s))
         /\ self = Example345 => res = Example345Bumped

\* bump_prerelease of a Version that the constructor made of the keyword
\* prerelease=1.0 raised a TypeError
C9_Witness ==
    /\ op = "bump_prerelease"
    /\ self.prerelease = FloatV(1)
    /\ err = "TypeError"
    /\ res = NoVersion

----------------------------------------------------------------------------
(* C10: next_version.                                                      *)

\* the condition under which next_version only removes prerelease and build
OnlyStrips(v, part) ==
    /\ Truthy(v.prerelease) \/ Truthy(v.build)
    /\ \/ part = "patch"
       \/ part = "minor" /\ v.patch = 0
       \/ part = "major" /\ v.minor = 0 /\ v.patch = 0

Example014 == parse(StrV(VersionString(0, 1, 4, <<>>, <<>>))).v

Example015rc1 == parse(StrV(VersionString(0, 1, 5, rc \o <<".", "1">>, <<>>))).v

\* the result the claim gives next_version(part, token) on v: [err, v]
Expected(v, part, token) ==
    IF OnlyStrips(v, part)
    THEN [err |-> "none", v |-> Ver(v.major, v.minor, v.patch, None, None)]
    ELSE CASE part = "major" -> bump_major(v)
           [] part = "minor" -> bump_minor(v)
           [] part = "patch" -> bump_patch(v)
           [] part = "prerelease" /\ Truthy(v.prerelease) ->
                bump_prerelease(v, token)
           [] part = "prerelease" /\ ~Truthy(v.prerelease) ->
                bump_prerelease(bump_patch(v).v, token)
           [] OTHER -> [err |-> "InvalidArgument", v |-> NoVersion]

\* C10: next_version(part) of a version with prerelease or build returns
\* its numbers alone when part is patch, or minor with patch 0, or major
\* with minor and patch 0; otherwise major, minor and patch return what
\* the bump of the part returns, prerelease returns bump_prerelease of the
\* version, bumped by patch first when it has no prerelease, so that 0.1.4
\* gives 0.1.5-rc.1; any other part fails with InvalidArgument.
C10_NextVersion ==
    op = "next_version" =>
      /\ [err |-> err, v |-> res] = Expected(self, arg.part, arg.token)
      /\ self = Example014 /\ arg.part = "prerelease" /\ arg.token = StrV(rc)
           => err = "none" /\ res = Example015rc1

\* next_version("minor") of a version with a prerelease and patch 0
C10_Witness ==
    /\ op = "next_version" /\ arg.part = "minor"
    /\ Truthy(self.prerelease) /\ self.patch = 0
    /\ err = "none"
    /\ res = Ver(self.major, self.minor, 0, None, None)

----------------------------------------------------------------------------
(* C11: next_version and the order.                                        *)

\* self was parsed and its prerelease and build are of the grammar
GrammarValidSelf ==
    /\ ByParse
    /\ PrereleaseOfGrammar(self.prerelease)
    /\ BuildOfGrammar(self.build)

\* C11: for every Version of the grammar and every part among major, minor,
\* patch and prerelease, next_version(part) returns a Version that compares
\* strictly greater than the Version it was called on.
C11_NextVersionIsGreater ==
    (/\ op = "next_version"
     /\ GrammarValidSelf
     /\ arg.part \in {"major", "minor", "patch", "prerelease"}
     /\ arg.token = StrV(rc))
      => err = "none" /\ Holds("__gt__", res, self)

\* next_version("patch") of a parsed Version with a build and no prerelease
\* returned a Version that compares equal to it
C11_Witness ==
    /\ op = "next_version" /\ arg.part = "patch" /\ arg.token = StrV(rc)
    /\ GrammarValidSelf
    /\ self.prerelease = None /\ Truthy(self.build)
    /\ err = "none"
    /\ res = Ver(self.major, self.minor, self.patch, None, None)
    /\ Holds("__eq__", res, self)

----------------------------------------------------------------------------
(* C12: which value the constructor gives a field.                         *)

\* the positional form is a single version string with a dot
DottedForm(args) ==
    /\ Len(args) = 1
    /\ args[1].t \in {"str", "bytes"}
    /\ Contains(args[1].s, ".")

\* the five values of a Version, the numbers as ints
Fields(v) == <<IntV(v.major), IntV(v.minor), IntV(v.patch), v.prerelease, v.build>>

\* the value of the positional form for field i, None when it has none
Positional(args, i) ==
    IF DottedForm(args) THEN Fields(parse(args[1]).v)[i]
    ELSE IF i <= Len(args) THEN args[i]
    ELSE None

\* the value the field i is made of: the named one, else the positional
\* one, else the default
Supplied(args, kw, i) ==
    IF kw[VERSIONPARTS[i]] # None THEN kw[VERSIONPARTS[i]]
    ELSE IF Positional(args, i) # None THEN Positional(args, i)
    ELSE IF i <= 3 THEN IntV(0) ELSE None

\* a value as a field holds it: a number as int, a text as str
AsField(i, x) == IF i <= 3 THEN IntV(_ensure_int(x).n) ELSE _enforce_str(x)

\* C12: after a constructor call that succeeds each of the five fields is
\* the named value when one is given, otherwise the value of the positional
\* form (the value at the position, or the field parsed from the single
\* dotted string), otherwise the default: 0 for the numbers, absent for
\* prerelease and build.
C12_FieldPrecedence ==
    op = "Version" /\ err = "none" =>
      \A i \in 1..5 :
         Fields(self)[i] = AsField(i, Supplied(arg.args, arg.kw, i))

\* a dotted string with a named patch and build: the named values are in
\* the fields, the others come from the string
C12_Witness ==
    /\ op = "Version" /\ err = "none"
    /\ DottedForm(arg.args)
    /\ arg.kw.patch = IntV(0) /\ arg.kw.build = StrV(<<"b">>)
    /\ self = Ver(1, 2, 0, StrV(rc), StrV(<<"b">>))

----------------------------------------------------------------------------
(* C13: the errors of the constructor.                                     *)

\* the types a value of field i may have: an integer or a text, and for
\* prerelease and build also none
ExpectedTypes(i) ==
    IF i <= 3 THEN {"int", "str", "bytes"} ELSE {"int", "str", "bytes", "none"}

\* a positional or a named value has a type outside the set of its field;
\* a named None is a value that is not given
IllTyped(args, kw) ==
    \/ \E i \in 1..Min(Len(args), 5) : args[i].t \notin ExpectedTypes(i)
    \/ \E i \in 1..5 : kw[VERSIONPARTS[i]].t \notin ExpectedTypes(i) \cup {"none"}

\* a dotted version string is followed by further positional values
DottedAndMore(args) ==
    /\ Len(args) > 1
    /\ args[1].t \in {"str", "bytes"}
    /\ Contains(args[1].s, ".")

\* the value of major, minor or patch is no number or is negative
BadNumber(args, kw) ==
    \E i \in 1..3 : _ensure_int(Supplied(args, kw, i)).err = "InvalidValue"

\* C13: the constructor fails with TooManyArguments for more than 5
\* positional values, with InvalidArgumentCombination for a dotted string
\* followed by more values, with InvalidType for a positional or named
\* value of a type outside the set of its field, with InvalidValue for a
\* major, minor or patch that is no number or negative; a failed call makes
\* no Version, and a Version that is made has major, minor and patch >= 0.
C13_ConstructorErrors ==
    op = "Version" =>
      /\ IF Len(arg.args) > 5 THEN err = "TooManyArguments"
         ELSE IF DottedAndMore(arg.args) THEN err = "InvalidArgumentCombination"
         ELSE IF IllTyped(arg.args, arg.kw) THEN err = "InvalidType"
         ELSE IF BadNumber(arg.args, arg.kw) THEN err = "InvalidValue"
         ELSE TRUE
      /\ err # "none" => self = NoVersion
      /\ err = "none" => self.major >= 0 /\ self.minor >= 0 /\ self.patch >= 0

\* the constructor was called with the named prerelease 1.0, a float, and
\* made a Version that holds the float
C13_Witness ==
    /\ op = "Version"
    /\ arg.kw.prerelease = FloatV(1)
    /\ err = "none"
    /\ self.prerelease = FloatV(1)

----------------------------------------------------------------------------
(* C14: operands that are converted.                                       *)

\* x is a version string, a mapping of parts or a sequence of values
Convertible(o) ==
    \/ o.k \in {"dict", "seq"}
    \/ o.k = "value" /\ o.x.t \in {"str", "bytes"} /\ Contains(o.x.s, ".")

\* what the constructor makes of x: Version(x), Version(**x), Version(*x)
Constructed(o) ==
    CASE o.k = "dict" -> Version(<<>>, o.kw)
      [] o.k = "seq" -> Version(o.args, NoKw)
      [] OTHER -> Version(<<o.x>>, NoKw)

\* C14: for an operand x that is a version string, a mapping of parts or a
\* sequence of values, of which the constructor makes the Version w,
\* compare and every comparison operator give with x what they give with w.
C14_ConvertedOperand ==
    (Convertible(other) /\ Constructed(other).err = "none") =>
      /\ op = "compare" =>
           [err |-> err, n |-> num]
             = compare(self, OfVersion(Constructed(other).v))
      /\ op \in Operators =>
           /\ err = "none"
           /\ flag = Holds(op, self, Constructed(other).v)

\* a Version was compared with a list of four values and came out greater
C14_Witness ==
    /\ op = "compare"
    /\ other.k = "seq" /\ Len(other.args) = 4
    /\ Constructed(other).err = "none"
    /\ err = "none" /\ num = 1

----------------------------------------------------------------------------
(* C15: match.                                                             *)

\* e starts with the operator o, and with no longer operator when o has
\* one character
Recognized(e, o) ==
    /\ Len(e) >= Len(o) /\ SubSeq(e, 1, Len(o)) = o
    /\ Len(o) = 1 => \A l \in MatchOperators : Len(l) = 2 =>
                        ~(Len(e) >= 2 /\ SubSeq(e, 1, 2) = l)

\* the results of the three-way comparison that the operator accepts
Accepted(o) ==
    CASE o = <<">">> -> {1}
      [] o = <<"<">> -> {-1}
      [] o = <<">", "=">> -> {1, 0}
      [] o = <<"<", "=">> -> {-1, 0}
      [] o = <<"=", "=">> -> {0}
      [] o = <<"!", "=">> -> {-1, 1}

\* what match gives for the operator o and the rest w of the expression
MatchOf(o, w, c) ==
    IF c.err # "none" THEN err = c.err
    ELSE err = "none" /\ flag = (c.n \in Accepted(o))

Version100 == parse(StrV(VersionString(1, 0, 0, <<>>, <<>>))).v

\* C15: v.match(o + s) is true exactly when the result of v.compare(s) is
\* among those the operator o accepts, an operator of two characters being
\* recognized before one of one character; an expression that starts with
\* none of the six operators fails with InvalidMatchExpression; 2.0.0
\* matches ">=1.0.0" and 1.0.0 does not match ">1.0.0".
C15_Match ==
    op = "match" =>
      /\ \A o \in MatchOperators :
            Recognized(arg.token.s, o) =>
              MatchOf(o, SubSeq(arg.token.s, Len(o) + 1, Len(arg.token.s)),
                      compare(self, OfValue(StrV(SubSeq(arg.token.s, Len(o) + 1,
                                                        Len(arg.token.s))))))
      /\ (\A o \in MatchOperators : ~Recognized(arg.token.s, o))
           => err = "InvalidMatchExpression"
      /\ self = Version200 /\ arg.token.s = <<">", "=">> \o __str__(Version100)
           => err = "none" /\ flag
      /\ self = Version100 /\ arg.token.s = <<">">> \o __str__(Version100)
           => err = "none" /\ ~flag

\* a version above 1.0.0 matched ">=1.0.0"
C15_Witness ==
    /\ op = "match"
    /\ arg.token.s = <<">", "=">> \o __str__(Version100)
    /\ self = Version200
    /\ err = "none" /\ flag

----------------------------------------------------------------------------
(* C16: replace.                                                           *)

\* a given value as a field of the new Version holds it: a number as an
\* int, a text as a str
Given(i, x) ==
    IF i <= 3 /\ x.t \in {"str", "bytes"} THEN IntV(DigitsValue(x.s))
    ELSE IF i > 3 THEN _enforce_str(x)
    ELSE x

\* C16: replace returns a Version in which each field that is named has
\* the given value and every other field is the one of v; a call that
\* names a field outside the five fails with UnknownField, and UnknownField
\* is reported only when such a name was passed.
C16_Replace ==
    op = "replace" =>
      /\ err = "none" =>
           \A i \in 1..5 :
              Fields(res)[i] = IF VERSIONPARTS[i] \in arg.names
                               THEN Given(i, arg.kw[VERSIONPARTS[i]])
                               ELSE Fields(self)[i]
      /\ arg.names \ Range(VERSIONPARTS) # {} => err = "UnknownField"
      /\ err = "UnknownField" => arg.names \ Range(VERSIONPARTS) # {}

\* replace(major=[1]) failed with the error of an unknown field
C16_Witness ==
    /\ op = "replace"
    /\ arg.names = {"major"} /\ arg.kw.major = ListV
    /\ err = "UnknownField"
    /\ res = NoVersion

----------------------------------------------------------------------------
(* C17: a Version is never changed.                                        *)

\* C17: no step of a sequence of compare, match, the bumps, next_version,
\* finalize_version, replace, to_tuple, to_dict and str changes the five
\* fields of the receiver or of the Version passed as operand, whether the
\* call succeeds or fails; an assignment to one of the five fields fails
\* with an error and leaves the fields as they are.
C17_Immutable ==
    [][/\ self' = self
       /\ other' = other
       /\ op' = "setattr" => err' = "AttributeError"]_vars

\* after a call that returned another Version, an assignment to major
\* was rejected
C17_Witness ==
    /\ op = "setattr" /\ err = "AttributeError"
    /\ arg.part = "major" /\ arg.token = IntV(7)
    /\ self.major # 7
    /\ res # NoVersion /\ res # self

----------------------------------------------------------------------------
(* C18: equality and hashing.                                              *)

\* C18: two Versions of the constructor that are equal by == have the same
\* tuple (major, minor, patch, prerelease) hashed by __hash__.
C18_EqualHashed ==
    op = "__hash__" /\ Holds("__eq__", self, other.v) => flag

\* Version(1, 0, 0) and Version(1, 0, 0, "") are equal and the tuples that
\* are hashed differ
C18_Witness ==
    /\ op = "__hash__"
    /\ self = Ver(1, 0, 0, None, None)
    /\ other.v = Ver(1, 0, 0, StrV(<<>>), None)
    /\ Holds("__eq__", self, other.v)
    /\ ~flag

----------------------------------------------------------------------------
(* C19: the derived versions stay valid.                                   *)

\* C19: every Version reached from a parsed one through bump_major,
\* bump_minor, bump_patch, bump_prerelease, bump_build, next_version and
\* finalize_version with the default tokens has major, minor and patch >= 0
\* and a string that parse accepts and maps back to the same five fields.
C19_ValidityClosed ==
    op # "init" =>
      /\ self.major >= 0 /\ self.minor >= 0 /\ self.patch >= 0
      /\ parse(StrV(__str__(self))) = [err |-> "none", v |-> self]

\* a prerelease and a build were seeded and bumped at the end of a chain
C19_Witness ==
    /\ num = MaxChain
    /\ op = "bump_build"
    /\ self.prerelease = StrV(rc \o <<".", "1">>)
    /\ self.build = StrV(build \o <<".", "1">>)
    /\ parse(StrV(__str__(self))).v = self

====
